---- MODULE Spec2Model ----
(***************************************************************************)
(* rust-ole-inspector: the registry scanner with its per-entry reads and   *)
(* handles (src/registry.rs and the inline copy in src/main.rs), the       *)
(* filter evaluator (src/filter.rs), the view merger and the usability     *)
(* classifier (src/main.rs, src/display.rs).                               *)
(*                                                                         *)
(* A String is a sequence of Unicode code points.  An Option<T> is a       *)
(* sequence of length 0 (None) or 1 (Some(x) is <<x>>).  A HashMap is a    *)
(* function whose DOMAIN is its key set.                                   *)
(***************************************************************************)
EXTENDS Integers, Sequences, FiniteSets, TLC

VARIABLES
    pc,            \* position of the running function
    args,          \* Args: limit and the four filters
    cand,          \* filter evaluator input: [clsid, prog_id, description]
    included,      \* filter evaluator output
    impl,          \* which scan loop runs: "registry" (registry.rs) or "main" (main.rs)
    registry,      \* the registry view under HKCR\CLSID: [open, entries]
    index,         \* scan_com_objects: index
    objects,       \* scan_com_objects: objects / the mapping main is folding
    scan_result,   \* scan_com_objects: "Ok" or "Err" once it has returned, "none" before
    handles,       \* the registry handles: for each HKEY variable whether it is open, and
                   \* how often it was opened and closed
    scanned,       \* what scan_com_objects returns for each view when main calls it
    views_to_scan, \* main: the views the for loop has still to visit
    view_name,     \* main: the view of the current pass of the for loop
    all_objects,   \* main: all_objects
    output,        \* main: the lines printed for the views (stdout and stderr)
    usability      \* display_results: the usability printed for each record

filterVars == <<cand, included>>
scanVars == <<impl, registry, index, objects, scan_result, handles>>
mergeVars == <<scanned, views_to_scan, view_name, all_objects, output, usability>>
vars == <<pc, args, filterVars, scanVars, mergeVars>>

----------------------------------------------------------------------------
(* Bounds *)

MaxLen == 2        \* longest friendly_name / description of the filter evaluator's inputs
MaxEntries == 3    \* most child entries of a registry view
MaxLimit == 2      \* largest result ceiling
MaxMergeIds == 2   \* identifiers the two merged mappings draw from
MaxReadEntries == 2  \* most child entries of a view whose reads fail in every way

----------------------------------------------------------------------------
(* Option and HashMap *)

None == << >>
Some(x) == <<x>>
is_some(o) == Len(o) = 1
is_none(o) == Len(o) = 0
unwrap(o) == o[1]
Opt(S) == {None} \cup {Some(x) : x \in S}

EmptyMap == << >>
Keys(m) == DOMAIN m
\* HashMap::insert: a new key is added, an existing key's value is replaced
insert(m, k, v) == [x \in (DOMAIN m) \cup {k} |-> IF x = k THEN v ELSE m[x]]
\* the entry the iterator of a consumed map yields is no longer in it
remove(m, k) == [x \in (DOMAIN m) \ {k} |-> m[x]]

ComObject(clsid, prog_id, description) ==
    [clsid |-> clsid, prog_id |-> prog_id, description |-> description]

----------------------------------------------------------------------------
(* Strings: str::to_lowercase and str::contains *)

\* Code points used: 65 'A', 66 'B', 97 'a', 98 'b', 99 'c', 70 'F', 71 'G', 100 'd',
\* 931 GREEK CAPITAL SIGMA, 963 GREEK SMALL SIGMA, 962 GREEK SMALL FINAL SIGMA.
\* Cased and Case_Ignorable are given for ASCII and the three sigmas.
Cased(c) == c \in (65..90) \cup (97..122) \cup {931, 962, 963}
Case_Ignorable(c) == c \in {39, 46, 58, 94, 96}

\* char::to_lowercase for every character but capital sigma
to_lower(c) == IF c \in 65..90 THEN c + 32 ELSE c

Reverse(s) == [i \in 1..Len(s) |-> s[Len(s) + 1 - i]]

RECURSIVE case_ignorable_then_cased(_)
case_ignorable_then_cased(s) ==
    IF s = << >> THEN FALSE
    ELSE IF Case_Ignorable(Head(s)) THEN case_ignorable_then_cased(Tail(s))
    ELSE Cased(Head(s))

\* Capital sigma lower-cases to the final form at the end of a word
map_uppercase_sigma(from, i) ==
    IF /\ case_ignorable_then_cased(Reverse(SubSeq(from, 1, i - 1)))
       /\ ~case_ignorable_then_cased(SubSeq(from, i + 1, Len(from)))
    THEN 962 ELSE 963

to_lowercase(s) ==
    [i \in 1..Len(s) |-> IF s[i] = 931 THEN map_uppercase_sigma(s, i) ELSE to_lower(s[i])]

\* str::contains: needle occurs in hay as a contiguous run; the empty needle always does
contains(hay, needle) ==
    \E k \in 0..(Len(hay) - Len(needle)) : SubSeq(hay, k + 1, k + Len(needle)) = needle

\* String::from_utf16_lossy: a surrogate pair becomes one code point, a surrogate
\* without its partner becomes U+FFFD, every other unit is its own code point
RECURSIVE from_utf16_lossy(_)
from_utf16_lossy(u) ==
    IF u = << >> THEN << >>
    ELSE IF Head(u) \in 55296..56319 /\ Len(u) > 1 /\ u[2] \in 56320..57343
         THEN <<65536 + (Head(u) - 55296) * 1024 + (u[2] - 56320)>>
              \o from_utf16_lossy(SubSeq(u, 3, Len(u)))
    ELSE IF Head(u) \in 55296..57343 THEN <<65533>> \o from_utf16_lossy(Tail(u))
    ELSE <<Head(u)>> \o from_utf16_lossy(Tail(u))

----------------------------------------------------------------------------
(* The registry as the Win32 calls see it: keys, default values and handles *)

\* A key below HKCR\CLSID: the status RegOpenKeyExW gives for it, and for its default
\* value the status of the size query, the size in bytes that query reports, the
\* status of the data query and the UTF-16 units stored (terminator included).
Key(open, query_size, size, query_data, data) ==
    [open |-> open, query_size |-> query_size, size |-> size, query_data |-> query_data, data |-> data]

\* the key does not exist or may not be opened
KeyMissing == Key("ERROR_FILE_NOT_FOUND", "ERROR_FILE_NOT_FOUND", 0, "ERROR_FILE_NOT_FOUND", << >>)
\* the key opens and has no default value
KeyNoDefault == Key("ERROR_SUCCESS", "ERROR_FILE_NOT_FOUND", 0, "ERROR_FILE_NOT_FOUND", << >>)
\* the key opens and its default value holds no data
KeyEmptyDefault == Key("ERROR_SUCCESS", "ERROR_SUCCESS", 0, "ERROR_SUCCESS", << >>)
\* the key opens, the size query succeeds and the data query fails
KeyUnreadable(s) == Key("ERROR_SUCCESS", "ERROR_SUCCESS", 2 * (Len(s) + 1), "ERROR_MORE_DATA", s \o <<0>>)
\* the key opens and its default value is the string s followed by the terminator
KeyWith(s) == Key("ERROR_SUCCESS", "ERROR_SUCCESS", 2 * (Len(s) + 1), "ERROR_SUCCESS", s \o <<0>>)

\* the HKEY variables of registry.rs / main.rs
HandleNames == {"hkey_clsid", "hkey_progid", "hkey_obj"}
NoHandles == [h \in HandleNames |-> [open |-> FALSE, opened |-> 0, closed |-> 0]]

\* RegOpenKeyExW(.., &mut h): on success h is an open handle
RegOpenKeyExW(hs, h, status) ==
    IF status = "ERROR_SUCCESS"
    THEN [hs EXCEPT ![h] = [open |-> TRUE, opened |-> @.opened + 1, closed |-> @.closed]]
    ELSE hs

\* RegCloseKey(h)
RegCloseKey(hs, h) ==
    [hs EXCEPT ![h] = [open |-> FALSE, opened |-> @.opened, closed |-> @.closed + 1]]

read_registry_string_unsized(hkey) ==
    \* bug: a value of size 0 is read as the empty string
    IF hkey.query_size # "ERROR_SUCCESS" \/ hkey.query_data # "ERROR_SUCCESS" THEN None
    ELSE Some(from_utf16_lossy(SubSeq(hkey.data, 1, Len(hkey.data) - 1)))

\* read_registry_string(hkey, None): the default value of an open key
read_registry_string(hkey) ==
    IF hkey.query_size # "ERROR_SUCCESS" \/ hkey.size = 0 THEN None
    ELSE LET buffer == [j \in 1..(hkey.size \div 2) |->
                            IF j <= Len(hkey.data) THEN hkey.data[j] ELSE 0]
         IN  IF hkey.query_data # "ERROR_SUCCESS" THEN None
             ELSE LET zeros == {j \in 1..Len(buffer) : buffer[j] = 0}
                      len == IF zeros = {} THEN Len(buffer)
                             ELSE (CHOOSE j \in zeros : \A k \in zeros : j <= k) - 1
                  IN  Some(from_utf16_lossy(SubSeq(buffer, 1, len)))

----------------------------------------------------------------------------
(* filter.rs: should_include_object *)

\* the comparison every filter uses on a required field
field_matches(field, filter) == contains(to_lowercase(field), to_lowercase(filter))

\* .as_ref().map(|p| p.to_lowercase().contains(&filter_lower)).unwrap_or(false)
opt_matches(field, filter) ==
    IF is_some(field) THEN field_matches(unwrap(field), filter) ELSE FALSE

should_include_object_or(prog_id, description, clsid, interactive_filter, filter_description, filter_clsid, filter_app) ==
    \* bug: the filters are alternatives, one matching filter admits
    \/ /\ is_none(interactive_filter) /\ is_none(filter_description)
       /\ is_none(filter_clsid) /\ is_none(filter_app)
    \/ /\ is_some(interactive_filter)
       /\ \/ opt_matches(prog_id, unwrap(interactive_filter))
          \/ opt_matches(description, unwrap(interactive_filter))
          \/ field_matches(clsid, unwrap(interactive_filter))
    \/ is_some(filter_description) /\ opt_matches(description, unwrap(filter_description))
    \/ is_some(filter_clsid) /\ field_matches(clsid, unwrap(filter_clsid))
    \/ /\ is_some(filter_app)
       /\ \E a \in 1..Len(unwrap(filter_app)) :
            \/ opt_matches(prog_id, unwrap(filter_app)[a])
            \/ opt_matches(description, unwrap(filter_app)[a])
            \/ field_matches(clsid, unwrap(filter_app)[a])

should_include_object_absent(prog_id, description, clsid, interactive_filter, filter_description, filter_clsid, filter_app) ==
    \* bug: unwrap_or(true), an absent field satisfies a filter
    LET om(field, filter) ==
            IF is_some(field) THEN field_matches(unwrap(field), filter) ELSE TRUE
    IN  /\ is_some(interactive_filter) =>
            \/ om(prog_id, unwrap(interactive_filter))
            \/ om(description, unwrap(interactive_filter))
            \/ field_matches(clsid, unwrap(interactive_filter))
        /\ is_some(filter_description) => om(description, unwrap(filter_description))
        /\ is_some(filter_clsid) => field_matches(clsid, unwrap(filter_clsid))
        /\ is_some(filter_app) =>
            \E a \in 1..Len(unwrap(filter_app)) :
                \/ om(prog_id, unwrap(filter_app)[a])
                \/ om(description, unwrap(filter_app)[a])
                \/ field_matches(clsid, unwrap(filter_app)[a])

should_include_object_all(prog_id, description, clsid, interactive_filter, filter_description, filter_clsid, filter_app) ==
    \* bug: iter().all instead of iter().any over the keywords
    /\ is_some(interactive_filter) =>
        \/ opt_matches(prog_id, unwrap(interactive_filter))
        \/ opt_matches(description, unwrap(interactive_filter))
        \/ field_matches(clsid, unwrap(interactive_filter))
    /\ is_some(filter_description) => opt_matches(description, unwrap(filter_description))
    /\ is_some(filter_clsid) => field_matches(clsid, unwrap(filter_clsid))
    /\ is_some(filter_app) =>
        \A a \in 1..Len(unwrap(filter_app)) :
            \/ opt_matches(prog_id, unwrap(filter_app)[a])
            \/ opt_matches(description, unwrap(filter_app)[a])
            \/ field_matches(clsid, unwrap(filter_app)[a])

should_include_object(prog_id, description, clsid, interactive_filter, filter_description, filter_clsid, filter_app) ==
    LET \* interactive filter (searches ProgID, description, and CLSID)
        matches ==
            LET filter_lower == to_lowercase(unwrap(interactive_filter))
            IN  \/ IF is_some(prog_id)
                   THEN contains(to_lowercase(unwrap(prog_id)), filter_lower) ELSE FALSE
                \/ IF is_some(description)
                   THEN contains(to_lowercase(unwrap(description)), filter_lower) ELSE FALSE
                \/ contains(to_lowercase(clsid), filter_lower)
        desc_matches ==
            LET desc_filter_lower == to_lowercase(unwrap(filter_description))
            IN  IF is_some(description)
                THEN contains(to_lowercase(unwrap(description)), desc_filter_lower)
                ELSE FALSE
        clsid_matches ==
            LET clsid_filter_lower == to_lowercase(unwrap(filter_clsid))
            IN  contains(to_lowercase(clsid), clsid_filter_lower)
        app_matches ==
            LET app_filters == unwrap(filter_app)
            IN  \E a \in 1..Len(app_filters) :
                    LET app_lower == to_lowercase(app_filters[a])
                    IN  \/ IF is_some(prog_id)
                           THEN contains(to_lowercase(unwrap(prog_id)), app_lower)
                           ELSE FALSE
                        \/ IF is_some(description)
                           THEN contains(to_lowercase(unwrap(description)), app_lower)
                           ELSE FALSE
                        \/ contains(to_lowercase(clsid), app_lower)
    IN  IF is_some(interactive_filter) /\ ~matches THEN FALSE
        ELSE IF is_some(filter_description) /\ ~desc_matches THEN FALSE
        ELSE IF is_some(filter_clsid) /\ ~clsid_matches THEN FALSE
        ELSE IF is_some(filter_app) /\ ~app_matches THEN FALSE
        ELSE TRUE

----------------------------------------------------------------------------
(* The filter evaluator on its own: its inputs are drawn, then it is called *)

\* all strings over chars of length at most n
Strings(chars, n) == UNION {[1..k -> chars] : k \in 0..n}

\* 'a' and capital sigma
FieldChars == {97, 931}
\* "a" and "B"
FilterIds == {<<97>>, <<66>>}
\* "", "A", "b" and small sigma
FilterTexts == {<< >>, <<65>>, <<98>>, <<963>>}
\* keyword lists: [], ["A"], [sigma], ["b", "A"], ["A", sigma]
AppFilters == {<< >>, <<(<<65>>)>>, <<(<<963>>)>>, <<(<<98>>), (<<65>>)>>, <<(<<65>>), (<<963>>)>>}

NoCand == [clsid |-> << >>, prog_id |-> None, description |-> None]
NoArgs == [verbose |-> FALSE, scan_32bit |-> FALSE, scan_64bit |-> FALSE, limit |-> 0, filter |-> None, filter_description |-> None, filter_clsid |-> None, filter_app |-> None]
ScanErr == [ok |-> FALSE, objects |-> EmptyMap]
NoScans == [v \in {"32-bit", "64-bit"} |-> ScanErr]
NoRegistry == [open |-> FALSE, entries |-> << >>]

InitFilter ==
    /\ pc = "eval"
    /\ cand \in [clsid : FilterIds,
                 prog_id : Opt(Strings(FieldChars, MaxLen)),
                 description : Opt(Strings(FieldChars, MaxLen))]
    /\ args \in [verbose : {FALSE}, scan_32bit : {FALSE}, scan_64bit : {FALSE}, limit : {0},
                 filter : Opt(FilterTexts),
                 filter_description : Opt(FilterTexts),
                 filter_clsid : Opt(FilterTexts),
                 filter_app : Opt(AppFilters)]
    /\ included = FALSE
    /\ impl \in {"registry", "main"}
    \* main.rs: Args has no filter_app
    /\ impl = "main" => is_none(args.filter_app)
    /\ registry = NoRegistry
    /\ index = 0
    /\ objects = EmptyMap
    /\ scan_result = "none"
    /\ handles = NoHandles
    /\ scanned = NoScans
    /\ views_to_scan = << >>
    /\ view_name = "none"
    /\ all_objects = EmptyMap
    /\ output = << >>
    /\ usability = EmptyMap

\* registry.rs: the call of should_include_object on one candidate
Evaluate ==
    /\ pc = "eval"
    /\ impl = "registry"
    /\ included' = should_include_object(cand.prog_id, cand.description, cand.clsid,
                       args.filter, args.filter_description, args.filter_clsid,
                       args.filter_app)
    /\ pc' = "evaluated"
    /\ UNCHANGED <<args, cand, scanVars, mergeVars>>

inline_filters_no_description(a, prog_id, description, clsid) ==
    \* bug: the description-only filter is left out of the inline copy
    /\ is_some(a.filter) =>
          \/ opt_matches(prog_id, unwrap(a.filter))
          \/ opt_matches(description, unwrap(a.filter))
          \/ field_matches(clsid, unwrap(a.filter))
    /\ is_some(a.filter_clsid) => field_matches(clsid, unwrap(a.filter_clsid))

\* main.rs: the filters written inline in the loop; FALSE is a `continue`
inline_filters(a, prog_id, description, clsid) ==
    LET matches ==
            LET filter_lower == to_lowercase(unwrap(a.filter))
            IN  \/ IF is_some(prog_id)
                   THEN contains(to_lowercase(unwrap(prog_id)), filter_lower) ELSE FALSE
                \/ IF is_some(description)
                   THEN contains(to_lowercase(unwrap(description)), filter_lower) ELSE FALSE
                \/ contains(to_lowercase(clsid), filter_lower)
        desc_matches ==
            LET desc_filter_lower == to_lowercase(unwrap(a.filter_description))
            IN  IF is_some(description)
                THEN contains(to_lowercase(unwrap(description)), desc_filter_lower)
                ELSE FALSE
        clsid_matches ==
            contains(to_lowercase(clsid), to_lowercase(unwrap(a.filter_clsid)))
    IN  IF is_some(a.filter) /\ ~matches THEN FALSE
        ELSE IF is_some(a.filter_description) /\ ~desc_matches THEN FALSE
        ELSE IF is_some(a.filter_clsid) /\ ~clsid_matches THEN FALSE
        ELSE TRUE

\* main.rs: the inline filters on one candidate
EvaluateInline ==
    /\ pc = "eval"
    /\ impl = "main"
    /\ included' = inline_filters(args, cand.prog_id, cand.description, cand.clsid)
    /\ pc' = "evaluated"
    /\ UNCHANGED <<args, cand, scanVars, mergeVars>>

NextFilter == Evaluate \/ EvaluateInline

SpecFilter == InitFilter /\ [][NextFilter]_vars

----------------------------------------------------------------------------
(* registry.rs and main.rs: scan_com_objects on one registry view *)

\* "a", "B", "aB", "Ba", "c": the names of the child entries of HKCR\CLSID
IdList == << <<97>>, <<66>>, <<97, 66>>, <<66, 97>>, <<99>> >>
ScanIds == {IdList[i] : i \in 1..(IF MaxEntries < Len(IdList) THEN MaxEntries ELSE Len(IdList))}
\* the ProgID sub-entry of an entry: missing, or with the default value "A"
ScanProgIds == {KeyMissing, KeyWith(<<65>>)}
\* the entry's own key: without a default value, or with the default value "b"
ScanDescriptions == {KeyNoDefault, KeyWith(<<98>>)}
\* a child entry: its name, the status RegEnumKeyExW gives at its position, the
\* ProgID sub-entry and the entry's own key
RegistryEntries ==
    [clsid : ScanIds, status : {"ERROR_SUCCESS"}, progid_key : ScanProgIds, clsid_key : ScanDescriptions]

\* key names are unique below one key; the keys that exist are enumerated in the
\* order of IdList or in the opposite order, and which of them exist and what they
\* hold is free
IdPos(id) == CHOOSE i \in 1..Len(IdList) : IdList[i] = id
DistinctNames(es) ==
    \/ \A i, j \in 1..Len(es) : i < j => IdPos(es[i].clsid) < IdPos(es[j].clsid)
    \/ \A i, j \in 1..Len(es) : i < j => IdPos(es[i].clsid) > IdPos(es[j].clsid)
EntryLists == {es \in UNION {[1..k -> RegistryEntries] : k \in 0..MaxEntries} : DistinctNames(es)}

\* the entries es with the name at position i (from 1) unreadable; i = 0 leaves all readable
Unreadable(es, i) ==
    [j \in 1..Len(es) |-> IF j = i THEN [es[j] EXCEPT !.status = "ERROR_MORE_DATA"] ELSE es[j]]

\* a view that opens, with its entries, at most one of them with an unreadable name;
\* or a view that cannot be opened
Registries ==
    {[open |-> TRUE, entries |-> Unreadable(es, i)] : es \in EntryLists, i \in 0..MaxEntries}
    \cup {NoRegistry}

\* filter "B", filter_description "B", filter_clsid "a", filter_app ["c", "A"]
ScanArgs ==
    [verbose : {FALSE}, scan_32bit : {FALSE}, scan_64bit : {FALSE}, limit : 0..MaxLimit,
     filter : Opt({<<66>>}),
     filter_description : Opt({<<66>>}),
     filter_clsid : Opt({<<97>>}),
     filter_app : Opt({<< <<99>>, <<65>> >>})]

Init ==
    /\ pc = "scan_open"
    /\ impl \in {"registry", "main"}
    /\ args \in ScanArgs
    \* main.rs: Args has no filter_app
    /\ impl = "main" => is_none(args.filter_app)
    /\ registry \in Registries
    /\ index = 0
    /\ objects = EmptyMap
    /\ scan_result = "none"
    /\ handles = NoHandles
    /\ cand = NoCand
    /\ included = FALSE
    /\ scanned = NoScans
    /\ views_to_scan = << >>
    /\ view_name = "none"
    /\ all_objects = EmptyMap
    /\ output = << >>
    /\ usability = EmptyMap

RegEnumKeyExW_unchecked(reg, i) ==
    \* bug: the status of an entry with an unreadable name is taken for success
    IF i < Len(reg.entries) THEN "ERROR_SUCCESS" ELSE "ERROR_NO_MORE_ITEMS"

\* RegEnumKeyExW(hkey_clsid, index, ..): the status for a positional index
RegEnumKeyExW(reg, i) ==
    IF i < Len(reg.entries) THEN reg.entries[i + 1].status ELSE "ERROR_NO_MORE_ITEMS"
enum_entry(reg, i) == reg.entries[i + 1]
\* String::from_utf16_lossy(&name_buffer[..name_len as usize])
enum_clsid(reg, i) == from_utf16_lossy(enum_entry(reg, i).clsid)

\* get_prog_id(hkey_clsid, &clsid): the value it returns
get_prog_id(reg, i) ==
    LET hkey_progid == enum_entry(reg, i).progid_key
    IN  IF hkey_progid.open = "ERROR_SUCCESS" THEN read_registry_string(hkey_progid) ELSE None

\* get_prog_id(hkey_clsid, &clsid): what it does to the handles
get_prog_id_hkeys(hs, reg, i) ==
    LET hkey_progid == enum_entry(reg, i).progid_key
    IN  IF hkey_progid.open = "ERROR_SUCCESS"
        THEN RegCloseKey(RegOpenKeyExW(hs, "hkey_progid", hkey_progid.open), "hkey_progid")
        ELSE RegOpenKeyExW(hs, "hkey_progid", hkey_progid.open)

\* get_description(hkey_clsid, &clsid): the value it returns
get_description(reg, i) ==
    LET hkey_obj == enum_entry(reg, i).clsid_key
    IN  IF hkey_obj.open = "ERROR_SUCCESS" THEN read_registry_string(hkey_obj) ELSE None

get_description_hkeys_leak(hs, reg, i) ==
    \* bug: the handle is closed only when a value was read
    LET hkey_obj == enum_entry(reg, i).clsid_key
    IN  IF is_some(get_description(reg, i))
        THEN RegCloseKey(RegOpenKeyExW(hs, "hkey_obj", hkey_obj.open), "hkey_obj")
        ELSE RegOpenKeyExW(hs, "hkey_obj", hkey_obj.open)

\* get_description(hkey_clsid, &clsid): what it does to the handles
get_description_hkeys(hs, reg, i) ==
    LET hkey_obj == enum_entry(reg, i).clsid_key
    IN  IF hkey_obj.open = "ERROR_SUCCESS"
        THEN RegCloseKey(RegOpenKeyExW(hs, "hkey_obj", hkey_obj.open), "hkey_obj")
        ELSE RegOpenKeyExW(hs, "hkey_obj", hkey_obj.open)

next_index_skip(i) ==
    \* bug: an index is skipped
    i + 2

\* index += 1
next_index(i) == i + 1

limit_reached_after(limit, len) ==
    \* bug: > instead of >=, one more entry is admitted before stopping
    limit > 0 /\ len > limit

limit_reached_never(limit, len) ==
    \* bug: the ceiling is not looked at
    FALSE

\* limit > 0 && objects.len() >= limit
limit_reached(limit, len) == limit > 0 /\ len >= limit

\* RegOpenKeyExW(HKEY_CLASSES_ROOT, "CLSID", 0, KEY_READ | view_flag, ..)
ScanOpen ==
    /\ pc = "scan_open"
    /\ handles' = RegOpenKeyExW(handles, "hkey_clsid",
                       IF registry.open THEN "ERROR_SUCCESS" ELSE "ERROR_ACCESS_DENIED")
    /\ IF registry.open
       THEN /\ index' = 0
            /\ pc' = "scan_loop"
            /\ UNCHANGED scan_result
       ELSE /\ scan_result' = "Err"
            /\ pc' = "scan_returned"
            /\ UNCHANGED index
    /\ objects' = EmptyMap
    /\ UNCHANGED <<args, filterVars, impl, registry, mergeVars>>

\* what one pass of the loop body does once the entry's admission is decided
LoopBody(admit) ==
    IF RegEnumKeyExW(registry, index) # "ERROR_SUCCESS"
    THEN /\ pc' = "scan_close"
         /\ UNCHANGED <<index, objects, handles>>
    ELSE LET clsid == enum_clsid(registry, index)
             prog_id == get_prog_id(registry, index)
             description == get_description(registry, index)
         IN  /\ handles' = get_description_hkeys(get_prog_id_hkeys(handles, registry, index),
                                registry, index)
             /\ IF admit
                THEN /\ objects' = insert(objects, clsid, ComObject(clsid, prog_id, description))
                     /\ IF limit_reached(args.limit, Cardinality(Keys(objects')))
                        THEN pc' = "scan_close" /\ UNCHANGED index
                        ELSE pc' = "scan_loop" /\ index' = next_index(index)
                ELSE /\ index' = next_index(index)
                     /\ pc' = "scan_loop"
                     /\ UNCHANGED objects

\* registry.rs: one pass of the loop, the filters evaluated by should_include_object
ScanStep ==
    /\ pc = "scan_loop"
    /\ impl = "registry"
    /\ LoopBody(/\ RegEnumKeyExW(registry, index) = "ERROR_SUCCESS"
                /\ should_include_object(get_prog_id(registry, index),
                       get_description(registry, index), enum_clsid(registry, index),
                       args.filter, args.filter_description, args.filter_clsid,
                       args.filter_app))
    /\ UNCHANGED <<args, filterVars, impl, registry, scan_result, mergeVars>>

\* main.rs: one pass of the loop, the filters written inline
ScanStepInline ==
    /\ pc = "scan_loop"
    /\ impl = "main"
    /\ LoopBody(/\ RegEnumKeyExW(registry, index) = "ERROR_SUCCESS"
                /\ inline_filters(args, get_prog_id(registry, index),
                       get_description(registry, index), enum_clsid(registry, index)))
    /\ UNCHANGED <<args, filterVars, impl, registry, scan_result, mergeVars>>

\* RegCloseKey(hkey_clsid); Ok(objects)
ScanClose ==
    /\ pc = "scan_close"
    /\ handles' = RegCloseKey(handles, "hkey_clsid")
    /\ scan_result' = "Ok"
    /\ pc' = "scan_returned"
    /\ UNCHANGED <<args, filterVars, impl, registry, index, objects, mergeVars>>

Next == ScanOpen \/ ScanStep \/ ScanStepInline \/ ScanClose

Spec == Init /\ [][Next]_vars

\* The scans over entries whose two reads fail in every way they can: the key does
\* not open, it has no default value, the value has size 0, the data query fails.
ReadProgIds == {KeyMissing, KeyNoDefault, KeyEmptyDefault, KeyUnreadable(<<65>>), KeyWith(<<65>>)}
ReadDescriptions == {KeyMissing, KeyNoDefault, KeyEmptyDefault, KeyUnreadable(<<98>>), KeyWith(<<98>>)}
ReadEntries ==
    [clsid : {IdList[i] : i \in 1..MaxReadEntries}, status : {"ERROR_SUCCESS"},
     progid_key : ReadProgIds, clsid_key : ReadDescriptions]
ReadEntryLists ==
    {es \in UNION {[1..k -> ReadEntries] : k \in 0..MaxReadEntries} :
        \A i, j \in 1..Len(es) : i < j => IdPos(es[i].clsid) < IdPos(es[j].clsid)}

InitRead ==
    /\ pc = "scan_open"
    /\ impl \in {"registry", "main"}
    \* filter_description "b"
    /\ args \in [verbose : {FALSE}, scan_32bit : {FALSE}, scan_64bit : {FALSE},
                 limit : 0..MaxLimit, filter : {None}, filter_description : Opt({<<98>>}),
                 filter_clsid : {None}, filter_app : {None}]
    /\ registry \in [open : {TRUE}, entries : ReadEntryLists]
    /\ index = 0
    /\ objects = EmptyMap
    /\ scan_result = "none"
    /\ handles = NoHandles
    /\ cand = NoCand
    /\ included = FALSE
    /\ scanned = NoScans
    /\ views_to_scan = << >>
    /\ view_name = "none"
    /\ all_objects = EmptyMap
    /\ output = << >>
    /\ usability = EmptyMap

SpecRead == InitRead /\ [][Next]_vars

\* the scans with the id filter as the only filter that may be set
InitLive ==
    /\ Init
    /\ is_none(args.filter) /\ is_none(args.filter_description) /\ is_none(args.filter_app)

\* the scan is one thread of straight-line code: a step that can be taken is taken
SpecLive == InitLive /\ [][Next]_vars /\ WF_vars(Next)

----------------------------------------------------------------------------
(* main.rs: main, the views scanned one after the other and folded into         *)
(* all_objects.  What scan_com_objects returns for a view is drawn in the       *)
(* initial state: an error, or a mapping keyed by the records' identifiers.     *)

MergeIds == {IdList[i] : i \in 1..(IF MaxMergeIds < Len(IdList) THEN MaxMergeIds ELSE Len(IdList))}
\* friendly names "F" and "G", description "d"
MergeProgIds == Opt({<<70>>, <<71>>})
MergeDescriptions == Opt({<<100>>})

\* the mappings a scan can return: each key maps to a record of that identifier
ScanMapsOf(names) ==
    UNION {{m \in [ks -> [clsid : ks, prog_id : names, description : MergeDescriptions]] :
                \A k \in ks : m[k].clsid = k} : ks \in SUBSET MergeIds}
ScanMaps == ScanMapsOf(MergeProgIds)
ScanOutcomes == {ScanErr} \cup [ok : {TRUE}, objects : ScanMaps]
\* the 64-bit view's friendly names are absent or "G": the same as, other than, or
\* without a counterpart in the 32-bit view
ScanOutcomes64 == {ScanErr} \cup [ok : {TRUE}, objects : ScanMapsOf(Opt({<<71>>}))]

Selects32(a) == a.scan_32bit \/ ~a.scan_64bit
Selects64(a) == a.scan_64bit \/ ~a.scan_32bit

InitMain ==
    /\ pc = "main_start"
    /\ args \in [verbose : BOOLEAN, scan_32bit : BOOLEAN, scan_64bit : BOOLEAN, limit : {0},
                 filter : {None}, filter_description : {None}, filter_clsid : {None},
                 filter_app : {None}]
    /\ \E a \in ScanOutcomes, b \in ScanOutcomes64 :
          scanned = [v \in {"32-bit", "64-bit"} |-> IF v = "32-bit" THEN a ELSE b]
    \* a view that is not selected is never scanned
    /\ ~Selects32(args) => scanned["32-bit"] = ScanErr
    /\ ~Selects64(args) => scanned["64-bit"] = ScanErr
    /\ views_to_scan = << >>
    /\ view_name = "none"
    /\ all_objects = EmptyMap
    /\ output = << >>
    /\ usability = EmptyMap
    /\ objects = EmptyMap
    /\ impl = "main"
    /\ registry = NoRegistry
    /\ index = 0
    /\ scan_result = "none"
    /\ handles = NoHandles
    /\ cand = NoCand
    /\ included = FALSE

merge_entry_replace(all, clsid, obj) ==
    \* bug: plain insert, the incoming record replaces the existing one
    insert(all, clsid, obj)

merge_entry_keep(all, clsid, obj) ==
    \* bug: or_insert alone, an existing record is never filled
    IF clsid \in Keys(all) THEN all ELSE insert(all, clsid, obj)

\* all_objects.entry(clsid).and_modify(|existing| ..).or_insert(obj)
merge_entry(all, clsid, obj) ==
    IF clsid \in Keys(all)
    THEN LET existing == all[clsid]
         IN  [all EXCEPT ![clsid] =
                 [existing EXCEPT
                     !.prog_id = IF is_some(obj.prog_id) /\ is_none(existing.prog_id)
                                 THEN obj.prog_id ELSE existing.prog_id,
                     !.description = IF is_some(obj.description) /\ is_none(existing.description)
                                     THEN obj.description ELSE existing.description]]
    ELSE insert(all, clsid, obj)

\* the whole inner for loop over one view's mapping, started from the accumulator all
RECURSIVE merge_view(_, _)
merge_view(all, objs) ==
    IF Keys(objs) = {} THEN all
    ELSE LET clsid == CHOOSE k \in Keys(objs) : TRUE
         IN  merge_view(merge_entry(all, clsid, objs[clsid]), remove(objs, clsid))

select_views_either(a) ==
    \* bug: a view is selected only by its own flag
    (IF a.scan_32bit THEN <<"32-bit">> ELSE << >>) \o (IF a.scan_64bit THEN <<"64-bit">> ELSE << >>)

\* if args.scan_32bit || !args.scan_64bit { push 32-bit }; if args.scan_64bit || !args.scan_32bit { push 64-bit }
select_views(a) ==
    (IF a.scan_32bit \/ ~a.scan_64bit THEN <<"32-bit">> ELSE << >>)
    \o (IF a.scan_64bit \/ ~a.scan_32bit THEN <<"64-bit">> ELSE << >>)

check_usability_name_only(obj) ==
    \* bug: the description is not looked at
    IF is_some(obj.prog_id) THEN "High (has ProgID and description)"
    ELSE "Very Low (no ProgID or description)"

\* match (&obj.prog_id, &obj.description) { .. }; the strings without their leading mark
check_usability(obj) ==
    IF is_some(obj.prog_id) /\ is_some(obj.description) THEN "High (has ProgID and description)"
    ELSE IF is_some(obj.prog_id) /\ is_none(obj.description) THEN "Medium (has ProgID)"
    ELSE IF is_none(obj.prog_id) /\ is_some(obj.description) THEN "Low (no ProgID, has description)"
    ELSE "Very Low (no ProgID or description)"

report_error_silent(out, view) ==
    \* bug: the error of a view is swallowed
    out

\* Err(e) => { eprintln!("Error scanning {view_name} view: {e}"); }
report_error(out, view) == out \o << <<"Error scanning", view>> >>

\* let mut views_to_scan = Vec::new(); ..; let mut all_objects = HashMap::new();
MainSelectViews ==
    /\ pc = "main_start"
    /\ views_to_scan' = select_views(args)
    /\ all_objects' = EmptyMap
    /\ pc' = "main_next_view"
    /\ UNCHANGED <<args, filterVars, scanVars, scanned, view_name, output, usability>>

\* for (view_name, view_flag) in views_to_scan { match scan_com_objects(view_flag, ..) {
\* Ok(objects) => println!("Found ..") .., Err(e) => eprintln!("Error scanning ..") } }
MainScanView ==
    /\ pc = "main_next_view"
    /\ views_to_scan # << >>
    /\ view_name' = Head(views_to_scan)
    /\ views_to_scan' = Tail(views_to_scan)
    /\ IF scanned[Head(views_to_scan)].ok
       THEN /\ objects' = scanned[Head(views_to_scan)].objects
            /\ output' = output \o << <<"Scanning", Head(views_to_scan)>>,
                                      <<"Found", Head(views_to_scan)>> >>
            /\ pc' = "main_merge"
       ELSE /\ output' = report_error(output \o << <<"Scanning", Head(views_to_scan)>> >>,
                                      Head(views_to_scan))
            /\ pc' = "main_next_view"
            /\ UNCHANGED objects
    /\ UNCHANGED <<args, filterVars, impl, registry, index, scan_result, handles, scanned,
                   all_objects, usability>>

\* for (clsid, obj) in objects { .. }: one entry, in the map's iteration order
MainMergeEntry ==
    /\ pc = "main_merge"
    /\ \E clsid \in Keys(objects) :
          /\ all_objects' = merge_entry(all_objects, clsid, objects[clsid])
          /\ objects' = remove(objects, clsid)
    /\ UNCHANGED <<pc, args, filterVars, impl, registry, index, scan_result, handles, scanned,
                   views_to_scan, view_name, output, usability>>

\* the inner for loop has consumed the view's mapping
MainMergeDone ==
    /\ pc = "main_merge"
    /\ Keys(objects) = {}
    /\ pc' = "main_next_view"
    /\ UNCHANGED <<args, filterVars, scanVars, mergeVars>>

\* display_results(&all_objects, ..): the detailed listing prints each record's usability
MainDisplay ==
    /\ pc = "main_next_view"
    /\ views_to_scan = << >>
    /\ usability' = IF args.verbose
                    THEN [k \in Keys(all_objects) |-> check_usability(all_objects[k])]
                    ELSE EmptyMap
    /\ pc' = "main_done"
    /\ UNCHANGED <<args, filterVars, scanVars, scanned, views_to_scan, view_name, all_objects,
                   output>>

NextMain == MainSelectViews \/ MainScanView \/ MainMergeEntry \/ MainMergeDone \/ MainDisplay

SpecMain == InitMain /\ [][NextMain]_vars

----------------------------------------------------------------------------
(* Claims about the filter evaluator (checked under SpecFilter) *)

\* the four predicates of a FilterSet, each on a candidate c
FreeTextMatches(c, f) ==
    opt_matches(c.prog_id, f) \/ opt_matches(c.description, f) \/ field_matches(c.clsid, f)
DescriptionMatches(c, f) == opt_matches(c.description, f)
IdMatches(c, f) == field_matches(c.clsid, f)
AnyKeywordMatches(c, kws) == \E a \in 1..Len(kws) : FreeTextMatches(c, kws[a])

OtherActiveMatch(c, a) ==
    /\ is_some(a.filter) => FreeTextMatches(c, unwrap(a.filter))
    /\ is_some(a.filter_description) => DescriptionMatches(c, unwrap(a.filter_description))
    /\ is_some(a.filter_clsid) => IdMatches(c, unwrap(a.filter_clsid))

AllActiveMatch(c, a) ==
    /\ OtherActiveMatch(c, a)
    /\ is_some(a.filter_app) => AnyKeywordMatches(c, unwrap(a.filter_app))

NoFilterActive(a) ==
    /\ is_none(a.filter) /\ is_none(a.filter_description)
    /\ is_none(a.filter_clsid) /\ is_none(a.filter_app)

\* C6: the evaluator admits a candidate exactly when every active predicate of the
\* FilterSet matches it (AND over the four filters); with no filter active every
\* candidate is admitted.
C6_AdmitIffAllActiveMatch ==
    pc = "evaluated" =>
        /\ included <=> AllActiveMatch(cand, args)
        /\ NoFilterActive(args) => included

\* C6 witness: all four filters are active and every one matches.
C6_Witness ==
    /\ pc = "evaluated" /\ included
    /\ is_some(args.filter) /\ is_some(args.filter_description)
    /\ is_some(args.filter_clsid) /\ is_some(args.filter_app)

\* the fields of a candidate that hold a value: the id and the present optional fields
PresentFields(c) ==
    {c.clsid} \cup {unwrap(o) : o \in {x \in {c.prog_id, c.description} : is_some(x)}}

\* C7: an absent description is rejected by any active description-only filter, the
\* empty filter text included; a candidate admitted under a free-text or keyword
\* filter matched it through its id or a field that is present.
C7_AbsentNeverMatches ==
    pc = "evaluated" =>
        /\ (is_none(cand.description) /\ is_some(args.filter_description)) => ~included
        /\ (included /\ is_some(args.filter)) =>
              \E f \in PresentFields(cand) : field_matches(f, unwrap(args.filter))
        /\ (included /\ is_some(args.filter_app)) =>
              \E a \in 1..Len(unwrap(args.filter_app)) :
                  \E f \in PresentFields(cand) : field_matches(f, unwrap(args.filter_app)[a])

\* C7 witness: no description, the description-only filter is the empty string,
\* nothing else is active, and the candidate is rejected.
C7_Witness ==
    /\ pc = "evaluated" /\ ~included
    /\ is_none(cand.description) /\ is_some(cand.prog_id)
    /\ args.filter_description = Some(<< >>)
    /\ is_none(args.filter) /\ is_none(args.filter_clsid) /\ is_none(args.filter_app)

\* one letter's case changed
swap_case(c) ==
    IF c \in 65..90 THEN c + 32
    ELSE IF c \in 97..122 THEN c - 32
    ELSE IF c = 931 THEN 963
    ELSE IF c \in {962, 963} THEN 931
    ELSE c
CaseChanges(s) == {[s EXCEPT ![i] = swap_case(s[i])] : i \in 1..Len(s)}
OptCaseChanges(o) == IF is_some(o) THEN {Some(t) : t \in CaseChanges(unwrap(o))} ELSE {}
KeywordCaseChanges(o) ==
    IF is_some(o)
    THEN UNION {{Some([unwrap(o) EXCEPT ![a] = t]) : t \in CaseChanges(unwrap(o)[a])} :
                  a \in 1..Len(unwrap(o))}
    ELSE {}

\* the evaluator's inputs with the case of one letter of one operand changed
OneCaseChange(c, a) ==
    {<<[c EXCEPT !.clsid = t], a>> : t \in CaseChanges(c.clsid)}
    \cup {<<[c EXCEPT !.prog_id = t], a>> : t \in OptCaseChanges(c.prog_id)}
    \cup {<<[c EXCEPT !.description = t], a>> : t \in OptCaseChanges(c.description)}
    \cup {<<c, [a EXCEPT !.filter = t]>> : t \in OptCaseChanges(a.filter)}
    \cup {<<c, [a EXCEPT !.filter_description = t]>> : t \in OptCaseChanges(a.filter_description)}
    \cup {<<c, [a EXCEPT !.filter_clsid = t]>> : t \in OptCaseChanges(a.filter_clsid)}
    \cup {<<c, [a EXCEPT !.filter_app = t]>> : t \in KeywordCaseChanges(a.filter_app)}

\* C9: the evaluator's outcome is unchanged when the case of a letter of a filter
\* text or of a candidate field is changed.
C9_CaseInsensitive ==
    pc = "evaluated" =>
        \A v \in OneCaseChange(cand, args) :
            (IF impl = "registry"
             THEN should_include_object(v[1].prog_id, v[1].description, v[1].clsid,
                      v[2].filter, v[2].filter_description, v[2].filter_clsid,
                      v[2].filter_app)
             ELSE inline_filters(v[2], v[1].prog_id, v[1].description, v[1].clsid)) = included

----------------------------------------------------------------------------
(* Claims about one scan (checked under Spec) *)

\* the record of the entry at position i (from 1): its name and the two fields as read
Resolved(i) ==
    ComObject(enum_clsid(registry, i - 1), get_prog_id(registry, i - 1), get_description(registry, i - 1))
\* the number of entries before the first one with an unreadable name
Readable ==
    LET bad == {i \in 1..Len(registry.entries) : registry.entries[i].status # "ERROR_SUCCESS"}
    IN  IF bad = {} THEN Len(registry.entries) ELSE (CHOOSE i \in bad : \A j \in bad : i <= j) - 1
\* the positions (from 1) of the view's readable entries that satisfy the FilterSet
PassingIdx == {i \in 1..Readable : AllActiveMatch(Resolved(i), args)}
ScanReturnedOk == pc = "scan_returned" /\ scan_result = "Ok"

\* C3: with a ceiling N > 0 the mapping never holds more than N entries, in any
\* state of the enumeration loop and when the scan has returned.
C3_SizeAtMostCeiling ==
    args.limit > 0 => Cardinality(Keys(objects)) <= args.limit

\* C3 witness: a scan returned with the mapping at the ceiling although more
\* entries of the view pass the filters.
C3_Witness ==
    /\ ScanReturnedOk
    /\ args.limit > 0
    /\ Cardinality(Keys(objects)) = args.limit
    /\ Cardinality(PassingIdx) > args.limit

\* the position of the n-th entry that passes
NthPassing(n) == CHOOSE i \in PassingIdx : Cardinality({j \in PassingIdx : j <= i}) = n

\* C4: with a ceiling N > 0 and at least N passing entries, the scan stops at the
\* N-th passing entry: the result is exactly the first N passing entries in index
\* order, and index still names the N-th admitted entry.
C4_FirstNPassing ==
    (/\ pc \in {"scan_close", "scan_returned"}
     /\ registry.open
     /\ args.limit > 0
     /\ Cardinality(PassingIdx) >= args.limit) =>
        LET nth == NthPassing(args.limit)
            firstN == {j \in PassingIdx : j <= nth}
        IN  /\ Keys(objects) = {registry.entries[j].clsid : j \in firstN}
            /\ Cardinality(Keys(objects)) = args.limit
            /\ \A j \in firstN : objects[registry.entries[j].clsid] = Resolved(j)
            /\ index = nth - 1

\* C4 witness: a rejected entry precedes the N-th admitted one and a later entry
\* that passes is never read.
C4_Witness ==
    /\ ScanReturnedOk
    /\ args.limit > 0
    /\ Cardinality(PassingIdx) > args.limit
    /\ \E i \in 1..index : i \notin PassingIdx
    /\ Cardinality(Keys(objects)) = args.limit

\* C5: every record of the mapping is an entry of the view that satisfies the
\* FilterSet; without a ceiling, a scan that ran to "no more entries" returns every
\* entry that satisfies it.
C5_OnlyAndAllPassing ==
    /\ \A k \in Keys(objects) :
          /\ AllActiveMatch(objects[k], args)
          /\ \E i \in 1..Readable : Resolved(i) = objects[k]
    /\ (ScanReturnedOk /\ args.limit = 0 /\ Readable = Len(registry.entries)) =>
          Keys(objects) = {registry.entries[i].clsid : i \in PassingIdx}

\* C5 witness: an unlimited scan ran to the end, admitted an entry and rejected one.
C5_Witness ==
    /\ ScanReturnedOk /\ args.limit = 0 /\ Readable = Len(registry.entries)
    /\ Keys(objects) # {}
    /\ Cardinality(Keys(objects)) < Len(registry.entries)

\* C8 as stated: a record with a friendly_name was admitted through a match of a
\* filter that references friendly_name (the free-text or the keyword filter).
C8_NameImpliesNameFilterMatched ==
    \A k \in Keys(objects) :
        is_some(objects[k].prog_id) =>
            \/ is_some(args.filter) /\ FreeTextMatches(objects[k], unwrap(args.filter))
            \/ is_some(args.filter_app) /\ AnyKeywordMatches(objects[k], unwrap(args.filter_app))

\* C8 amended: for a record with a friendly_name, each filter that references
\* friendly_name and is active matched the record; an inactive one matched nothing.
C8_ActiveNameFiltersMatched ==
    \A k \in Keys(objects) :
        is_some(objects[k].prog_id) =>
            /\ is_some(args.filter) => FreeTextMatches(objects[k], unwrap(args.filter))
            /\ is_some(args.filter_app) =>
                  AnyKeywordMatches(objects[k], unwrap(args.filter_app))

\* C8 witness: a record was admitted under the keyword filter through its
\* friendly_name alone.
C8_Witness ==
    \E k \in Keys(objects) :
        /\ ScanReturnedOk
        /\ is_some(objects[k].prog_id)
        /\ is_some(args.filter_app)
        /\ \E a \in 1..Len(unwrap(args.filter_app)) :
              /\ field_matches(unwrap(objects[k].prog_id), unwrap(args.filter_app)[a])
        /\ \A a \in 1..Len(unwrap(args.filter_app)) :
              /\ ~field_matches(objects[k].clsid, unwrap(args.filter_app)[a])
              /\ ~opt_matches(objects[k].description, unwrap(args.filter_app)[a])

\* the number of entries whose two fields the loop has read so far
Evaluated ==
    IF pc = "scan_loop" THEN index
    ELSE IF pc \in {"scan_close", "scan_returned"} /\ registry.open
              /\ RegEnumKeyExW(registry, index) = "ERROR_SUCCESS" THEN index + 1
    ELSE IF pc \in {"scan_close", "scan_returned"} /\ registry.open THEN index
    ELSE 0
Opens(field) ==
    Cardinality({i \in 1..Evaluated : registry.entries[i][field].open = "ERROR_SUCCESS"})

\* C12: every handle that was opened is closed exactly once before the function that
\* opened it returns: a per-entry handle is never open between two passes of the loop
\* and is closed once per successful open, whether or not a value was read and whether
\* the entry is admitted; the root handle stays open during the loop and is closed
\* once on every exit of the loop; when the scan has returned no handle is open.
C12_HandlesClosedOnce ==
    /\ \A h \in HandleNames :
          handles[h].opened = handles[h].closed + (IF handles[h].open THEN 1 ELSE 0)
    /\ ~handles["hkey_progid"].open /\ ~handles["hkey_obj"].open
    /\ handles["hkey_progid"].opened = Opens("progid_key")
    /\ handles["hkey_obj"].opened = Opens("clsid_key")
    /\ pc \in {"scan_loop", "scan_close"} =>
          handles["hkey_clsid"] = [open |-> TRUE, opened |-> 1, closed |-> 0]
    /\ pc = "scan_returned" =>
          /\ \A h \in HandleNames : ~handles[h].open /\ handles[h].opened = handles[h].closed
          /\ handles["hkey_clsid"].closed = (IF registry.open THEN 1 ELSE 0)

\* C12 witness: the scan returned through the ceiling exit after it rejected an entry,
\* read an entry whose key opened without a value and one whose ProgID key did not
\* open; the root handle and every per-entry handle were closed.
C12_Witness ==
    /\ ScanReturnedOk
    /\ args.limit > 0 /\ Cardinality(Keys(objects)) = args.limit
    /\ \E i \in 1..Evaluated : i \notin PassingIdx
    /\ \E i \in 1..Evaluated : registry.entries[i].clsid_key = KeyNoDefault
    /\ \E i \in 1..Evaluated : registry.entries[i].progid_key = KeyMissing
    /\ handles["hkey_clsid"].closed = 1
    /\ handles["hkey_obj"].closed = Evaluated
    /\ handles["hkey_progid"].closed > 0

\* one step of the scan as the positional index sees it
IndexStep ==
    /\ (pc = "scan_open" /\ pc' = "scan_loop") => index' = 0
    /\ (pc = "scan_loop" /\ pc' = "scan_loop") => index' = index + 1
    /\ pc' \in {"scan_close", "scan_returned"} => index' = index
\* "no more entries" was the answer for the index the loop stopped at
Exhausted ==
    /\ pc \in {"scan_close", "scan_returned"} /\ registry.open
    /\ RegEnumKeyExW(registry, index) = "ERROR_NO_MORE_ITEMS"

\* C15: the index starts at 0 and grows by exactly 1 with every pass that stays in
\* the loop, after an admitted entry as after a rejected one, and stays at the
\* stopping point afterwards; while the loop runs every entry below the index has
\* been evaluated (the mapping holds exactly those of them that pass); every scan
\* returns; and a scan that ran into "no more entries" returns Ok with every
\* passing entry.
C15_IndexByOneAndTerminates ==
    /\ [][IndexStep]_vars
    /\ [](index \in 0..Len(registry.entries))
    /\ [](pc = "scan_loop" =>
            Keys(objects) = {registry.entries[i].clsid : i \in {j \in PassingIdx : j <= index}})
    /\ <>(pc = "scan_returned")
    /\ [](Exhausted =>
            /\ index = Len(registry.entries)
            /\ pc = "scan_returned" => scan_result = "Ok"
            /\ Keys(objects) = {registry.entries[i].clsid : i \in PassingIdx})

\* C15 witness: a scan without ceiling ran over an admitted and a rejected entry into
\* "no more entries" and returned Ok.
C15_Witness ==
    /\ ScanReturnedOk /\ Exhausted
    /\ index = Len(registry.entries) /\ index >= 2
    /\ Keys(objects) # {}
    /\ \E i \in 1..index : i \notin PassingIdx

\* the loop stopped at an entry whose name could not be read
StoppedAtUnreadable ==
    /\ pc \in {"scan_close", "scan_returned"} /\ registry.open
    /\ index = Readable /\ Readable < Len(registry.entries)
\* one step of the scan at an entry whose name cannot be read
UnreadableStep ==
    (pc = "scan_loop" /\ index = Readable /\ Readable < Len(registry.entries)) =>
        /\ pc' = "scan_close"
        /\ objects' = objects /\ index' = index

\* C16: a non-success status for index i ends the enumeration at i: the pass changes
\* neither the mapping nor the index, the index never goes past i, no record is
\* made for the entry at i or for a later one, the records of the passing entries
\* below i are in the mapping as they were read, and the scan returns Ok.
C16_UnreadableEndsScan ==
    /\ [][UnreadableStep]_vars
    /\ [](index <= Readable)
    /\ [](\A j \in (Readable + 1)..Len(registry.entries) :
              registry.entries[j].clsid \notin Keys(objects))
    /\ [](StoppedAtUnreadable =>
              /\ Keys(objects) = {registry.entries[j].clsid : j \in PassingIdx}
              /\ \A j \in PassingIdx : objects[registry.entries[j].clsid] = Resolved(j)
              /\ pc = "scan_returned" => scan_result = "Ok")

\* C16 witness: the first entry was admitted, the name of the second could not be read,
\* a third entry exists behind it, and the scan returned Ok with the first record.
C16_Witness ==
    /\ ScanReturnedOk /\ StoppedAtUnreadable
    /\ index = 1 /\ Len(registry.entries) = 3
    /\ registry.entries[2].status = "ERROR_MORE_DATA"
    /\ Keys(objects) = {registry.entries[1].clsid}
    /\ AllActiveMatch(Resolved(3), args)

\* what each copy of the filtering decides for a record
Extracted(rec, a) ==
    should_include_object(rec.prog_id, rec.description, rec.clsid, a.filter,
        a.filter_description, a.filter_clsid, a.filter_app)
Inline(rec, a) == inline_filters(a, rec.prog_id, rec.description, rec.clsid)

\* the loop of one copy run from index i with the mapping objs: the mapping and the
\* index it ends with
RECURSIVE ScanFrom(_, _, _)
ScanFrom(which, i, objs) ==
    IF i >= Readable THEN [objects |-> objs, index |-> i]
    ELSE LET rec == Resolved(i + 1)
             admitted == insert(objs, rec.clsid, rec)
         IN  IF ~(IF which = "registry" THEN Extracted(rec, args) ELSE Inline(rec, args))
             THEN ScanFrom(which, i + 1, objs)
             ELSE IF args.limit > 0 /\ Cardinality(Keys(admitted)) >= args.limit
             THEN [objects |-> admitted, index |-> i]
             ELSE ScanFrom(which, i + 1, admitted)

\* C19: without a keyword filter the inline filtering of main.rs admits a record
\* exactly when should_include_object does, for every entry of the view and every
\* combination of the three other filters; and for the same view, filters and ceiling
\* both loops end with the same mapping at the same index, which is what the scan
\* returns.
C19_InlineEqualsExtracted ==
    is_none(args.filter_app) =>
        /\ pc = "scan_open" =>
              \A i \in 1..Readable : Inline(Resolved(i), args) = Extracted(Resolved(i), args)
        /\ (pc = "scan_loop" /\ index < Readable) =>
              Inline(Resolved(index + 1), args) = Extracted(Resolved(index + 1), args)
        /\ ScanReturnedOk =>
              /\ [objects |-> objects, index |-> index] = ScanFrom("main", 0, EmptyMap)
              /\ [objects |-> objects, index |-> index] = ScanFrom("registry", 0, EmptyMap)

\* C19 witness: the inline loop ran with the three filters set, admitted an entry and
\* rejected one.
C19_Witness ==
    /\ ScanReturnedOk /\ impl = "main"
    /\ is_some(args.filter) /\ is_some(args.filter_description) /\ is_some(args.filter_clsid)
    /\ Keys(objects) # {}
    /\ \E i \in 1..Evaluated : i \notin PassingIdx

----------------------------------------------------------------------------
(* Claims about the reads of one entry (checked under SpecRead) *)

\* the field a key is to give: its stored string when the key opens and both queries
\* succeed with a size above 0, absent otherwise
FieldOf(key, stored) ==
    IF key \in {KeyMissing, KeyNoDefault, KeyEmptyDefault, KeyUnreadable(stored)} THEN None
    ELSE Some(stored)
\* the record the entry at position i (from 1) is to give
RecordOf(i) ==
    ComObject(registry.entries[i].clsid, FieldOf(registry.entries[i].progid_key, <<65>>),
              FieldOf(registry.entries[i].clsid_key, <<98>>))
\* one pass of the loop over an entry
ReadStep ==
    (pc = "scan_loop" /\ index < Len(registry.entries)) =>
        /\ pc' = "scan_loop" => index' = index + 1
        /\ pc' # "scan_loop" =>
              /\ pc' = "scan_close" /\ index' = index
              /\ args.limit > 0 /\ Cardinality(Keys(objects')) = args.limit
        /\ AllActiveMatch(RecordOf(index + 1), args) =>
              objects' = insert(objects, registry.entries[index + 1].clsid, RecordOf(index + 1))
        /\ ~AllActiveMatch(RecordOf(index + 1), args) => objects' = objects

\* C17: a key that does not open, a default value that is missing, unreadable or of
\* size 0 gives an absent field and nothing else; each of the two fields is decided
\* by its own key alone; the entry is then admitted exactly when it satisfies the
\* FilterSet with those fields, the loop goes on with the next index, and the scan
\* never returns an error for it.
C17_ReadFailureIsAbsentField ==
    /\ [][ReadStep]_vars
    /\ [](scan_result # "Err")
    /\ [](pc = "scan_loop" =>
            /\ Keys(objects) = {registry.entries[i].clsid :
                                    i \in {j \in 1..index : AllActiveMatch(RecordOf(j), args)}}
            /\ \A i \in 1..index :
                  AllActiveMatch(RecordOf(i), args) =>
                      objects[registry.entries[i].clsid] = RecordOf(i))

\* C17 witness: the first entry's ProgID key did not open and its description was
\* read, the second entry's name was read and its description has size 0; both were
\* admitted and the scan ran to the end.
C17_Witness ==
    /\ ScanReturnedOk /\ Len(registry.entries) = 2 /\ index = 2
    /\ registry.entries[1].progid_key = KeyMissing
    /\ registry.entries[2].clsid_key = KeyEmptyDefault
    /\ objects[registry.entries[1].clsid].prog_id = None
    /\ objects[registry.entries[1].clsid].description = Some(<<98>>)
    /\ objects[registry.entries[2].clsid].prog_id = Some(<<65>>)
    /\ objects[registry.entries[2].clsid].description = None

----------------------------------------------------------------------------
(* Claims about the merge (checked under SpecMain) *)

ViewA == scanned["32-bit"].objects
ViewB == scanned["64-bit"].objects
OptFields == {"prog_id", "description"}

\* main has folded the mappings of both views, A (32-bit) first, then B (64-bit)
BothMerged ==
    /\ pc = "main_done"
    /\ Selects32(args) /\ Selects64(args)
    /\ scanned["32-bit"].ok /\ scanned["64-bit"].ok

\* no identifier has a field present in both mappings with different values
NoConflict(a, b) ==
    \A k \in Keys(a) \cap Keys(b) : \A f \in OptFields :
        (is_some(a[k][f]) /\ is_some(b[k][f])) => a[k][f] = b[k][f]

\* C1 as stated: folding A then B gives the mapping that folding B then A gives.
C1_MergeCommutative ==
    BothMerged => all_objects = merge_view(merge_view(EmptyMap, ViewB), ViewA)

\* C1 amended: folding A then B gives the mapping that folding B then A gives,
\* provided no shared identifier has a field present on both sides with different
\* values.
C1_MergeCommutativeNoConflict ==
    (BothMerged /\ NoConflict(ViewA, ViewB)) =>
        all_objects = merge_view(merge_view(EmptyMap, ViewB), ViewA)

\* C1 witness: the two mappings share an identifier whose records differ without
\* conflicting, and one mapping has an identifier the other lacks.
C1_Witness ==
    /\ BothMerged /\ NoConflict(ViewA, ViewB)
    /\ \E k \in Keys(ViewA) \cap Keys(ViewB) : ViewA[k] # ViewB[k]
    /\ Keys(ViewA) # Keys(ViewB)

\* C2 as stated: for an identifier of both mappings each optional field of the
\* merged record is present when an input has it, and holds the value of every
\* input that has it.
C2_UnionOfInputs ==
    BothMerged =>
        \A k \in Keys(ViewA) \cap Keys(ViewB) : \A f \in OptFields :
            /\ is_some(all_objects[k][f]) <=> (is_some(ViewA[k][f]) \/ is_some(ViewB[k][f]))
            /\ is_some(ViewA[k][f]) => all_objects[k][f] = ViewA[k][f]
            /\ is_some(ViewB[k][f]) => all_objects[k][f] = ViewB[k][f]

\* C2 amended: each optional field of the merged record is present when an input
\* has it and holds an input's value: that of the view folded first (32-bit) when
\* that view has it, otherwise that of the other view.
C2_FirstPresentValueKept ==
    BothMerged =>
        \A k \in Keys(ViewA) \cap Keys(ViewB) : \A f \in OptFields :
            /\ is_some(all_objects[k][f]) <=> (is_some(ViewA[k][f]) \/ is_some(ViewB[k][f]))
            /\ all_objects[k][f] \in {ViewA[k][f], ViewB[k][f]}
            /\ is_some(ViewA[k][f]) => all_objects[k][f] = ViewA[k][f]
            /\ is_none(ViewA[k][f]) => all_objects[k][f] = ViewB[k][f]

\* C2 witness: A has (name, no description), B has (no name, description) for one
\* identifier, and the merged record has both.
C2_Witness ==
    /\ BothMerged
    /\ \E k \in Keys(ViewA) \cap Keys(ViewB) :
          /\ is_some(ViewA[k].prog_id) /\ is_none(ViewA[k].description)
          /\ is_none(ViewB[k].prog_id) /\ is_some(ViewB[k].description)
          /\ all_objects[k].prog_id = ViewA[k].prog_id
          /\ all_objects[k].description = ViewB[k].description

----------------------------------------------------------------------------
(* Claims about main's loop over the views (checked under SpecMain) *)

Views == {"32-bit", "64-bit"}
Requested(v) == IF v = "32-bit" THEN Selects32(args) ELSE Selects64(args)
Lines(out) == {out[i] : i \in 1..Len(out)}
\* the for loop has finished its pass for view v
Visited(v) ==
    /\ Requested(v)
    /\ pc # "main_start"
    /\ \A i \in 1..Len(views_to_scan) : views_to_scan[i] # v
    /\ ~(pc = "main_merge" /\ view_name = v)
\* what a finished view contributes: its mapping, or nothing when its scan failed
Contribution(v) == IF Visited(v) /\ scanned[v].ok THEN scanned[v].objects ELSE EmptyMap

\* C11: a view whose root container cannot be opened yields an error and no record;
\* main reports the error for that view and for no other, the accumulator holds
\* exactly what the views that opened contribute, and every other requested view
\* is still scanned and merged, whichever of the two views fails.
C11_FailedViewOnly ==
    /\ \A v \in Views :
          /\ ~scanned[v].ok => scanned[v].objects = EmptyMap
          /\ <<"Error scanning", v>> \in Lines(output) <=> (Visited(v) /\ ~scanned[v].ok)
          /\ Visited(v) => <<"Scanning", v>> \in Lines(output)
          /\ (Visited(v) /\ scanned[v].ok) => <<"Found", v>> \in Lines(output)
    /\ pc \in {"main_next_view", "main_done"} =>
          all_objects = merge_view(merge_view(EmptyMap, Contribution("32-bit")),
                                   Contribution("64-bit"))
    /\ pc = "main_done" => \A v \in Views : Requested(v) => Visited(v)

\* C11 witness: both views are requested, the 32-bit view fails first, the 64-bit
\* view is then scanned and its records are the accumulator.
C11_Witness ==
    /\ pc = "main_done"
    /\ output = << <<"Scanning", "32-bit">>, <<"Error scanning", "32-bit">>,
                   <<"Scanning", "64-bit">>, <<"Found", "64-bit">> >>
    /\ Keys(all_objects) # {}
    /\ all_objects = scanned["64-bit"].objects

\* the tier the classifier is to give for a combination of presences
Tier(name_present, description_present) ==
    IF name_present /\ description_present THEN "High (has ProgID and description)"
    ELSE IF name_present THEN "Medium (has ProgID)"
    ELSE IF description_present THEN "Low (no ProgID, has description)"
    ELSE "Very Low (no ProgID or description)"
Tiers == {Tier(n, d) : n \in BOOLEAN, d \in BOOLEAN}
MergeRecords == [clsid : MergeIds, prog_id : MergeProgIds, description : MergeDescriptions]

\* C13: the classifier gives every record exactly one of four distinct tiers: High
\* with both fields present, Medium with the name only, Low with the description
\* only, Very Low with neither; records with the same presences get the same tier,
\* whatever their identifier and the fields' values; the detailed listing shows that
\* tier for every record of the accumulator.
C13_UsabilityTotal ==
    /\ Cardinality(Tiers) = 4
    /\ (pc = "main_done" /\ args.verbose) =>
          /\ Keys(usability) = Keys(all_objects)
          /\ \A k \in Keys(usability) :
                /\ usability[k] = Tier(is_some(all_objects[k].prog_id),
                                       is_some(all_objects[k].description))
                /\ \A o \in MergeRecords :
                      (is_some(o.prog_id) = is_some(all_objects[k].prog_id)
                          /\ is_some(o.description) = is_some(all_objects[k].description))
                      => check_usability(o) = usability[k]

\* C13 witness: the listing shows a record with the name only as Medium and a record
\* with the description only as Low.
C13_Witness ==
    /\ pc = "main_done" /\ args.verbose
    /\ \E k1, k2 \in Keys(usability) :
          /\ is_some(all_objects[k1].prog_id) /\ is_none(all_objects[k1].description)
          /\ usability[k1] = "Medium (has ProgID)"
          /\ is_none(all_objects[k2].prog_id) /\ is_some(all_objects[k2].description)
          /\ usability[k2] = "Low (no ProgID, has description)"

\* one step of main as the accumulator sees it
AccumulatorStep ==
    /\ Keys(all_objects) \subseteq Keys(all_objects')
    /\ \A k \in Keys(all_objects) :
          /\ all_objects'[k].clsid = all_objects[k].clsid
          /\ \A f \in OptFields :
                is_some(all_objects[k][f]) => all_objects'[k][f] = all_objects[k][f]
    \* the record taken from the view's mapping in this step, if any
    /\ \A c \in Keys(objects) \ Keys(objects') :
          /\ c \in Keys(all_objects) => Keys(all_objects') = Keys(all_objects)
          /\ c \notin Keys(all_objects) =>
                /\ Keys(all_objects') = Keys(all_objects) \cup {c}
                /\ all_objects'[c] = objects[c]
\* the key sets of the requested views whose scan succeeded
SuccessfulKeys == UNION {Keys(scanned[v].objects) : v \in {w \in Views : Requested(w) /\ scanned[w].ok}}

\* C14: while the views' mappings are folded into the accumulator no record is
\* deleted, a present friendly_name or description never changes, an identifier
\* that is found again keeps its one record, each record stays under its own
\* identifier, and when main has processed every view the key set is the union
\* of the key sets of the views that were scanned successfully.
C14_AccumulatorMonotone ==
    /\ [][AccumulatorStep]_vars
    /\ [](\A k \in Keys(all_objects) : all_objects[k].clsid = k)
    /\ [](pc = "main_done" => Keys(all_objects) = SuccessfulKeys)

\* C14 witness: an identifier found in both views keeps the first view's name against
\* a different name of the second view, has its absent description filled from the
\* second view, and the second view adds an identifier of its own.
C14_Witness ==
    /\ BothMerged
    /\ \E k \in Keys(ViewA) \cap Keys(ViewB) :
          /\ is_some(ViewA[k].prog_id) /\ is_some(ViewB[k].prog_id)
          /\ ViewA[k].prog_id # ViewB[k].prog_id
          /\ is_none(ViewA[k].description) /\ is_some(ViewB[k].description)
          /\ all_objects[k] = [ViewA[k] EXCEPT !.description = ViewB[k].description]
    /\ Keys(ViewB) \ Keys(ViewA) # {}
    /\ Keys(all_objects) = Keys(ViewA) \cup Keys(ViewB)

\* the views the flags ask for, in the order they are to be scanned
ExpectedViews ==
    IF args.scan_32bit = args.scan_64bit THEN <<"32-bit", "64-bit">>
    ELSE IF args.scan_32bit THEN <<"32-bit">>
    ELSE <<"64-bit">>
IsScanning(line) == line[1] = "Scanning"
\* the views whose scan has started, in the order of their start
Started == [i \in 1..Len(SelectSeq(output, IsScanning)) |-> SelectSeq(output, IsScanning)[i][2]]
\* a step of main that starts the scan of a view
ScanStarts == Len(Started') > Len(Started)

\* C18: neither flag or both flags select both views and one flag selects its view
\* alone, so some view is always selected; the views are scanned in that order, the
\* 32-bit view before the 64-bit view, each once; and a scan starts only when the
\* mapping of the view before it has been folded into the accumulator completely.
C18_ViewsSelectedAndSequential ==
    /\ [](pc # "main_start" =>
            /\ Started \o views_to_scan = ExpectedViews
            /\ Len(ExpectedViews) > 0)
    /\ [](pc = "main_merge" => view_name = Started[Len(Started)])
    /\ [](pc = "main_done" => Started = ExpectedViews)
    /\ [][ScanStarts =>
            /\ pc = "main_next_view" /\ Keys(objects) = {}
            /\ all_objects = merge_view(merge_view(EmptyMap, Contribution("32-bit")),
                                         Contribution("64-bit"))
            /\ \A i \in 1..Len(Started) : Visited(Started[i])]_vars

\* C18 witness: no flag is set, both views were scanned, the 32-bit view first, both
\* found records and the accumulator holds the records of both.
C18_Witness ==
    /\ pc = "main_done"
    /\ ~args.scan_32bit /\ ~args.scan_64bit
    /\ output = << <<"Scanning", "32-bit">>, <<"Found", "32-bit">>,
                   <<"Scanning", "64-bit">>, <<"Found", "64-bit">> >>
    /\ Keys(ViewA) # {} /\ Keys(ViewB) # {} /\ Keys(ViewA) # Keys(ViewB)
    /\ Keys(all_objects) = Keys(ViewA) \cup Keys(ViewB)

====
